---- MODULE Spec2Model ----
(***************************************************************************)
(* A model of trains.py: get_uz_board, process_uz_data and                 *)
(* loadDeparturesForStation.                                               *)
(*                                                                         *)
(* Python values are tagged records: [t |-> "None"], [t |-> "bool", b],    *)
(* [t |-> "int", i], [t |-> "bigint", e] (the integer 10^e, too large for  *)
(* a timestamp), [t |-> "float", h] (the float h/2), [t |-> "inf"],        *)
(* [t |-> "nan"], [t |-> "str", s] (s a sequence of one-character          *)
(* strings; "NBSP" is U+00A0 and "ARROW" is U+2192), [t |-> "list", l],    *)
(* and dictionaries [t |-> "dict", k |-> <kind>, ...] whose absent keys    *)
(* hold Absent.                                                            *)
(***************************************************************************)
EXTENDS Integers, Sequences, FiniteSets, TLC

VARIABLES pc, journeyConfig, rows, utcoffset, station_id, response, json_data,
          normalized, result, http_requests, steps

vars == <<pc, journeyConfig, rows, utcoffset, station_id, response, json_data,
          normalized, result, http_requests, steps>>

----------------------------------------------------------------------------
(* Python values *)

Absent == [t |-> "absent"]
None == [t |-> "None"]
PBool(b) == [t |-> "bool", b |-> b]
PInt(i) == [t |-> "int", i |-> i]
PBig(e) == [t |-> "bigint", e |-> e]
PFloat(h) == [t |-> "float", h |-> h]
FloatInf == [t |-> "inf"]
FloatNan == [t |-> "nan"]
PStr(s) == [t |-> "str", s |-> s]
PList(l) == [t |-> "list", l |-> l]
EmptyDict == [t |-> "dict", k |-> "empty"]

\* dict.get(key): a missing key reads as None
Get(v) == IF v = Absent THEN None ELSE v

\* dict.get(key, default)
GetDefault(v, default) == IF v = Absent THEN default ELSE v

\* bool(v), as `if v` and `not v` evaluate it
Truthy(v) ==
    CASE v.t = "None" -> FALSE
      [] v.t = "bool" -> v.b
      [] v.t = "int" -> v.i # 0
      [] v.t = "bigint" -> TRUE
      [] v.t = "float" -> v.h # 0
      [] v.t = "inf" -> TRUE
      [] v.t = "nan" -> TRUE
      [] v.t = "str" -> v.s # <<>>
      [] v.t = "list" -> v.l # <<>>
      [] v.t = "dict" -> v.k # "empty"

\* isinstance(v, (int, float)); bool is a subclass of int
IsNumber(v) == v.t \in {"bool", "int", "bigint", "float", "inf", "nan"}

\* isinstance(v, dict), isinstance(v, str), isinstance(v, list)
IsDict(v) == v.t = "dict"
IsStr(v) == v.t = "str"
IsList(v) == v.t = "list"

----------------------------------------------------------------------------
(* Strings *)

Digits == <<"0", "1", "2", "3", "4", "5", "6", "7", "8", "9">>

DigitChars == {Digits[i] : i \in 1..10}

RECURSIVE NatToStr(_)
NatToStr(n) ==
    IF n < 10 THEN <<Digits[n + 1]>>
    ELSE NatToStr(n \div 10) \o <<Digits[(n % 10) + 1]>>

\* str(i) of an int
IntToStr(i) == IF i < 0 THEN <<"-">> \o NatToStr(0 - i) ELSE NatToStr(i)

RECURSIVE Zeros(_)
Zeros(n) == IF n = 0 THEN <<>> ELSE <<"0">> \o Zeros(n - 1)

\* int(x) of a float h/2: truncation towards zero
FloatTrunc(h) == IF h >= 0 THEN h \div 2 ELSE 0 - ((0 - h) \div 2)

\* str(x) of a float h/2
FloatToStr(h) ==
    (IF h < 0 THEN <<"-">> ELSE <<>>)
        \o NatToStr(IF h < 0 THEN (0 - h) \div 2 ELSE h \div 2)
        \o <<".">>
        \o (IF h % 2 = 0 THEN <<"0">> ELSE <<"5">>)

\* str(v) and the f-string rendering {v}
PyStr(v) ==
    CASE v.t = "None" -> <<"N", "o", "n", "e">>
      [] v.t = "bool" -> IF v.b THEN <<"T", "r", "u", "e">>
                         ELSE <<"F", "a", "l", "s", "e">>
      [] v.t = "int" -> IntToStr(v.i)
      [] v.t = "bigint" -> <<"1">> \o Zeros(v.e)
      [] v.t = "float" -> FloatToStr(v.h)
      [] v.t = "inf" -> <<"i", "n", "f">>
      [] v.t = "nan" -> <<"n", "a", "n">>
      [] v.t = "str" -> v.s

\* the characters str.strip() removes
IsSpace(c) == c \in {" ", "NBSP"}

RECURSIVE LStrip(_)
LStrip(s) ==
    IF s # <<>> /\ IsSpace(Head(s)) THEN LStrip(Tail(s)) ELSE s

RECURSIVE RStrip(_)
RStrip(s) ==
    IF s # <<>> /\ IsSpace(s[Len(s)]) THEN RStrip(SubSeq(s, 1, Len(s) - 1))
    ELSE s

\* s.strip()
Strip(s) == RStrip(LStrip(s))

\* s.replace(c, to) for a one-character pattern c
RECURSIVE ReplaceChar(_, _, _)
ReplaceChar(s, c, to) ==
    IF s = <<>> THEN <<>>
    ELSE (IF Head(s) = c THEN to ELSE <<Head(s)>>)
             \o ReplaceChar(Tail(s), c, to)

\* sep occurs in s at index i
OccursAt(s, sep, i) ==
    /\ i >= 1
    /\ i + Len(sep) - 1 <= Len(s)
    /\ SubSeq(s, i, i + Len(sep) - 1) = sep

\* sep in s
Contains(s, sep) == \E i \in 1..Len(s) : OccursAt(s, sep, i)

\* s.find(sep), 1-based; 0 when sep does not occur
Find(s, sep) ==
    IF Contains(s, sep)
    THEN CHOOSE i \in 1..Len(s) :
             /\ OccursAt(s, sep, i)
             /\ \A j \in 1..(i - 1) : ~OccursAt(s, sep, j)
    ELSE 0

\* s.split(sep): scans left to right, cutting at non-overlapping occurrences
RECURSIVE Split(_, _)
Split(s, sep) ==
    LET i == Find(s, sep) IN
    IF i = 0 THEN <<s>>
    ELSE <<SubSeq(s, 1, i - 1)>> \o Split(SubSeq(s, i + Len(sep), Len(s)), sep)

\* seq[-1]
Last(seq) == seq[Len(seq)]

\* re.sub(r'\D', '', s): drops every character that is not a digit
RECURSIVE DigitsOnly(_)
DigitsOnly(s) ==
    IF s = <<>> THEN <<>>
    ELSE (IF Head(s) \in DigitChars THEN <<Head(s)>> ELSE <<>>)
             \o DigitsOnly(Tail(s))

\* ord(c), for the characters an aimed_departure_time can hold
Ord(c) ==
    CASE c = " " -> 32
      [] c = "-" -> 45
      [] c \in DigitChars -> 48 + (CHOOSE d \in 0..9 : Digits[d + 1] = c)
      [] c = ":" -> 58
      [] c = "B" -> 66
      [] c = "T" -> 84
      [] c = "a" -> 97
      [] c = "d" -> 100
      [] c = "e" -> 101
      [] c = "i" -> 105
      [] c = "m" -> 109

\* a < b on str: lexicographic by code point
RECURSIVE StrLess(_, _)
StrLess(a, b) ==
    IF b = <<>> THEN FALSE
    ELSE IF a = <<>> THEN TRUE
    ELSE IF Head(a) # Head(b) THEN Ord(Head(a)) < Ord(Head(b))
    ELSE StrLess(Tail(a), Tail(b))

\* " ".join(filter(None, args))
RECURSIVE joinWithSpaces(_)
joinWithSpaces(args) ==
    IF args = <<>> THEN <<>>
    ELSE IF ~Truthy(Head(args)) THEN joinWithSpaces(Tail(args))
    ELSE LET rest == joinWithSpaces(Tail(args)) IN
         IF rest = <<>> THEN Head(args).s ELSE Head(args).s \o <<" ">> \o rest

----------------------------------------------------------------------------
(* Outcomes of a call: a returned value or a propagating exception *)

Return(v) == [k |-> "return", v |-> v]
Raise(e) == [k |-> "raise", exc |-> e]

\* d.get(key) on a dict, before the default is applied
Field(d, key) ==
    IF d.k # "empty" /\ key \in DOMAIN d THEN d[key] ELSE Absent

\* string literals of trains.py
ConnectionFailed ==
    <<"C", "o", "n", "n", "e", "c", "t", "i", "o", "n", " ",
      "F", "a", "i", "l", "e", "d">>
ConfigError ==
    <<"C", "o", "n", "f", "i", "g", " ", "E", "r", "r", "o", "r">>
UnknownStation ==
    <<"U", "Z", " ", "S", "t", "a", "t", "i", "o", "n", " ",
      "(", "U", "n", "k", "n", "o", "w", "n", ")">>
BadTime == <<"B", "a", "d", " ", "T", "i", "m", "e">>
NoTime == <<"-", "-", ":", "-", "-">>
OnTime == <<"O", "n", " ", "t", "i", "m", "e">>
DestinationUnknown ==
    <<"D", "e", "s", "t", "i", "n", "a", "t", "i", "o", "n", " ",
      "U", "n", "k", "n", "o", "w", "n">>
SepDash == <<" ", "-", " ">>
SepArrow == <<"-", ">">>
Operator == <<"U", "Z">>
NotAvailable == <<"N", "/", "A">>
UkrainianRailways ==
    <<"U", "k", "r", "a", "i", "n", "i", "a", "n", " ",
      "R", "a", "i", "l", "w", "a", "y", "s", ".">>

\* two-digit zero-padded rendering, as %H and %M
Pad2(n) == <<Digits[(n \div 10) + 1], Digits[(n % 10) + 1]>>

\* datetime.fromtimestamp(sec).strftime("%H:%M") in the local zone, whose
\* offset from UTC is off seconds
StrfHM(sec, off) ==
    Pad2(((sec + off) \div 3600) % 24) \o <<":">> \o Pad2(((sec + off) \div 60) % 60)

\* datetime.fromtimestamp(ts) followed by strftime, for a truthy number ts
\* (CPython on 64-bit Linux: 10^12..10^16 is a year out of range, 10^17 and
\* 10^18 fail in localtime, larger values do not fit time_t)
FromTimestamp(ts, off) ==
    CASE ts.t = "bool" -> Return(StrfHM(1, off))
      [] ts.t = "int" -> Return(StrfHM(ts.i, off))
      [] ts.t = "float" -> Return(StrfHM(ts.h \div 2, off))
      [] ts.t = "nan" -> Raise("ValueError")
      [] ts.t = "inf" -> Raise("OverflowError")
      [] ts.t = "bigint" ->
            IF ts.e <= 16 THEN Raise("ValueError")
            ELSE IF ts.e <= 18 THEN Raise("OSError")
            ELSE Raise("OverflowError")

\* section A of the loop body: aimed_departure_time
AimedDepartureTime(item, off) ==
    LET timestamp == Get(Field(item, "time")) IN
    IF Truthy(timestamp) /\ IsNumber(timestamp)
    THEN LET dt == FromTimestamp(timestamp, off) IN
         IF dt.k = "return" THEN Return(PStr(dt.v))
         ELSE IF dt.exc = "ValueError" THEN Return(PStr(BadTime))
         ELSE dt
    ELSE Return(PStr(NoTime))

\* delay > 0 for a number
Positive(v) ==
    CASE v.t = "bool" -> v.b
      [] v.t = "int" -> v.i > 0
      [] v.t = "bigint" -> TRUE
      [] v.t = "float" -> v.h > 0
      [] v.t = "inf" -> TRUE
      [] v.t = "nan" -> FALSE

\* s is a decimal integer literal as int(str) accepts it: optional sign, digits
IsIntLiteral(s) ==
    LET body == IF s # <<>> /\ Head(s) \in {"-", "+"} THEN Tail(s) ELSE s IN
    body # <<>> /\ \A i \in 1..Len(body) : body[i] \in DigitChars

RECURSIVE ParseNat(_, _)
ParseNat(s, acc) ==
    IF s = <<>> THEN acc
    ELSE ParseNat(Tail(s),
                  10 * acc + (CHOOSE d \in 0..9 : Digits[d + 1] = Head(s)))

\* int(v): the integer, or the exception int() raises
PyInt(v) ==
    CASE v.t = "bool" -> Return(PInt(IF v.b THEN 1 ELSE 0))
      [] v.t = "int" -> Return(v)
      [] v.t = "bigint" -> Return(v)
      [] v.t = "float" -> Return(PInt(FloatTrunc(v.h)))
      [] v.t = "inf" -> Raise("OverflowError")
      [] v.t = "nan" -> Raise("ValueError")
      [] v.t = "str" ->
            LET lit == Strip(v.s) IN
            IF ~IsIntLiteral(lit) THEN Raise("ValueError")
            ELSE IF Head(lit) = "-" THEN Return(PInt(0 - ParseNat(Tail(lit), 0)))
            ELSE IF Head(lit) = "+" THEN Return(PInt(ParseNat(Tail(lit), 0)))
            ELSE Return(PInt(ParseNat(lit, 0)))
      [] v.t \in {"None", "list", "dict"} -> Raise("TypeError")

\* section B of the loop body: expected_departure_time
ExpectedDepartureTime(item) ==
    LET delay == Get(Field(item, "delay_minutes")) IN
    IF IsNumber(delay) /\ Positive(delay)
    THEN LET n == PyInt(delay) IN
         IF n.k = "raise" THEN n
         ELSE Return(PStr(<<"L", "a", "t", "e", " ">> \o PyStr(n.v) \o <<"m">>))
    ELSE Return(PStr(OnTime))

\* line 122: route.replace('\xa0', ' ').replace('→', '->').strip()
CleanRoute(route) ==
    Strip(ReplaceChar(ReplaceChar(route, "NBSP", <<" ">>), "ARROW", SepArrow))

\* DestinationName with the two separators tried in the other order
DestinationName_ArrowFirst(destination_name, route) ==
    IF Truthy(destination_name) THEN destination_name
    ELSE IF route # <<>>
    THEN IF Contains(route, SepArrow)
         THEN PStr(Strip(Last(Split(route, SepArrow))))
         ELSE IF Contains(route, SepDash)
         THEN PStr(Strip(Last(Split(route, SepDash))))
         ELSE PStr(Strip(route))
    ELSE PStr(DestinationUnknown)

\* lines 124-137: the destination chosen from the name and the cleaned route
DestinationName(destination_name, route) ==
    IF Truthy(destination_name) THEN destination_name
    ELSE IF route # <<>>
    THEN IF Contains(route, SepDash)
         THEN PStr(Strip(Last(Split(route, SepDash))))
         ELSE IF Contains(route, SepArrow)
         THEN PStr(Strip(Last(Split(route, SepArrow))))
         ELSE PStr(Strip(route))
    ELSE PStr(DestinationUnknown)

\* section D: platform
Platform(item) ==
    LET plat == Get(Field(item, "platform")) IN
    IF plat # None THEN PStr(PyStr(plat)) ELSE PStr(<<>>)

\* section F: train number cleanup
TrainNumber(item) ==
    LET raw_train_num == PyStr(GetDefault(Field(item, "train"), PStr(<<>>)))
        train_num == DigitsOnly(raw_train_num)
    IN  IF train_num # <<>> THEN train_num
        ELSE IF raw_train_num # <<>> THEN raw_train_num ELSE NotAvailable

\* section G: calling_at_list
CallingAtList(train_num, destination_name, route) ==
    PStr(joinWithSpaces(<<
        PStr(<<"T", "r", "a", "i", "n", " ">> \o train_num \o <<" ", "t", "o", " ">>
                 \o PyStr(destination_name) \o <<".">>),
        IF route # <<>>
        THEN PStr(<<"R", "o", "u", "t", "e", ":", " ">> \o route \o <<".">>)
        ELSE None,
        PStr(UkrainianRailways)>>))

\* the body of the loop over raw_departures, for one item: the departure
\* appended, or the first exception a statement of the body raises
ProcessItem(item, off) ==
    IF ~IsDict(item) THEN Raise("AttributeError")
    ELSE
    LET aimed == AimedDepartureTime(item, off)
        expected == ExpectedDepartureTime(item)
        destination == GetDefault(Field(item, "destination"), EmptyDict)
        raw_route == GetDefault(Field(item, "route"), PStr(<<>>))
    IN  IF aimed.k = "raise" THEN aimed
        ELSE IF expected.k = "raise" THEN expected
        ELSE IF ~IsDict(destination) THEN Raise("AttributeError")
        ELSE IF ~IsStr(raw_route) THEN Raise("AttributeError")
        ELSE
        LET route == CleanRoute(raw_route.s)
            dest == DestinationName(Get(Field(destination, "name")), route)
        IN  Return([aimed_departure_time |-> aimed.v,
                    expected_departure_time |-> expected.v,
                    destination_name |-> dest,
                    platform |-> Platform(item),
                    carriages |-> PInt(0),
                    operator |-> PStr(Operator),
                    calling_at_list |->
                        CallingAtList(TrainNumber(item), dest, route)])

\* the loop of lines 94-164 over raw_departures[i..]: the departures appended
\* to acc, or the exception that ends the call
RECURSIVE ProcessItems(_, _, _)
ProcessItems(raw, off, acc) ==
    IF raw = <<>> THEN Return(acc)
    ELSE LET d == ProcessItem(Head(raw), off) IN
         IF d.k = "raise" THEN d
         ELSE ProcessItems(Tail(raw), off, Append(acc, d.v))

\* the sort key of line 168
SortKey(x) == x.aimed_departure_time.s

\* InsertSorted placing x before the elements whose key equals its own
RECURSIVE InsertSorted_Unstable(_, _)
InsertSorted_Unstable(sorted, x) ==
    IF sorted = <<>> THEN <<x>>
    ELSE IF ~StrLess(SortKey(Head(sorted)), SortKey(x))
    THEN <<x>> \o sorted
    ELSE <<Head(sorted)>> \o InsertSorted_Unstable(Tail(sorted), x)

\* one step of a stable sort: x goes after every element whose key is not
\* greater than its own
RECURSIVE InsertSorted(_, _)
InsertSorted(sorted, x) ==
    IF sorted = <<>> THEN <<x>>
    ELSE IF StrLess(SortKey(x), SortKey(Head(sorted)))
    THEN <<x>> \o sorted
    ELSE <<Head(sorted)>> \o InsertSorted(Tail(sorted), x)

RECURSIVE SortFrom(_, _)
SortFrom(services, sorted) ==
    IF services = <<>> THEN sorted
    ELSE SortFrom(Tail(services), InsertSorted(sorted, Head(services)))

\* processed_services.sort(key=lambda x: x["aimed_departure_time"])
SortByTime(services) == SortFrom(services, <<>>)

\* process_uz_data(json_data, journeyConfig): Return(<<departures, station_name>>)
\* or the exception that propagates
process_uz_data(data, off) ==
    IF ~Truthy(data) THEN Return(<<<<>>, PStr(ConnectionFailed)>>)
    ELSE IF ~IsDict(data) THEN Raise("AttributeError")
    ELSE
    LET station == GetDefault(Field(data, "station"), EmptyDict) IN
    IF ~IsDict(station) THEN Raise("AttributeError")
    ELSE
    LET station_name == GetDefault(Field(station, "name"), PStr(UnknownStation))
        raw_departures == GetDefault(Field(data, "departures"), PList(<<>>))
    IN  IF ~IsList(raw_departures) THEN Return(<<<<>>, station_name>>)
        ELSE LET processed == ProcessItems(raw_departures.l, off, <<>>) IN
             IF processed.k = "raise" THEN processed
             ELSE Return(<<SortByTime(processed.v), station_name>>)

----------------------------------------------------------------------------
(* get_uz_board *)

\* the body of a 200 response that is not valid JSON
NotJson == [t |-> "notjson"]

\* str.isdigit()
IsDigit(s) == s # <<>> /\ \A i \in 1..Len(s) : s[i] \in DigitChars

\* lines 25-27: the station id the function accepts
ValidStationId(id) == IsStr(id) /\ IsDigit(id.s)

\* get_uz_board repeating the request once after a failed attempt
get_uz_board_Retry(id, resp) ==
    IF ~ValidStationId(id) THEN [ret |-> None, requests |-> 0]
    ELSE IF resp.kind = "response" /\ resp.status_code = 200 /\ resp.body # NotJson
    THEN [ret |-> resp.body, requests |-> 1]
    ELSE [ret |-> None, requests |-> 2]

\* get_uz_board(station_id) when requests.get behaves as resp says: the value
\* returned and the number of HTTP requests made
get_uz_board(id, resp) ==
    IF ~ValidStationId(id) THEN [ret |-> None, requests |-> 0]
    ELSE IF resp.kind = "response" /\ resp.status_code = 200 /\ resp.body # NotJson
    THEN [ret |-> resp.body, requests |-> 1]
    ELSE [ret |-> None, requests |-> 1]

----------------------------------------------------------------------------
(* loadDeparturesForStation *)

\* the limit that applies when int(rows) raises TypeError or ValueError
DefaultLimit == 10

\* departures[:limit]
Slice(departures, limit) ==
    IF limit.t = "bigint" THEN departures
    ELSE IF limit.i >= 0
    THEN SubSeq(departures, 1, IF limit.i < Len(departures) THEN limit.i
                               ELSE Len(departures))
    ELSE SubSeq(departures, 1, Len(departures) + limit.i)

\* lines 197-200: limit, or the exception the try does not catch
Limit(r) ==
    LET n == PyInt(r) IN
    IF n.k = "raise" /\ n.exc \in {"TypeError", "ValueError"}
    THEN Return(PInt(DefaultLimit))
    ELSE n

\* lines 195-203
Truncated(norm, r) ==
    LET limit == Limit(r) IN
    IF limit.k = "raise" THEN limit
    ELSE Return(<<Slice(norm[1], limit.v), norm[2]>>)

\* ConfigRejected testing only that the key is there
ConfigRejected_MissingOnly(config) ==
    \/ ~IsDict(config)
    \/ Field(config, "departureStation") = Absent

\* lines 182-190: the configurations answered with "Config Error"
ConfigRejected(config) ==
    \/ ~IsDict(config)
    \/ ~Truthy(Get(Field(config, "departureStation")))

\* lines 182-190
Validate ==
    /\ pc = "start"
    /\ steps' = Append(steps, "validate")
    /\ station_id' = IF IsDict(journeyConfig)
                     THEN Get(Field(journeyConfig, "departureStation"))
                     ELSE station_id
    /\ IF ConfigRejected(journeyConfig)
       THEN /\ result' = Return(<<<<>>, PStr(ConfigError)>>)
            /\ pc' = "done"
       ELSE /\ pc' = "validated"
            /\ UNCHANGED result
    /\ UNCHANGED <<journeyConfig, rows, utcoffset, response, json_data,
                   normalized, http_requests>>

\* line 192: the one call of get_uz_board; requests.get answers resp
Fetch(resp) ==
    /\ pc = "validated"
    /\ steps' = Append(steps, "fetch")
    /\ LET r == get_uz_board(station_id, resp) IN
       /\ json_data' = r.ret
       /\ http_requests' = http_requests + r.requests
       /\ response' = IF r.requests = 0 THEN response ELSE resp
    /\ pc' = "fetched"
    /\ UNCHANGED <<journeyConfig, rows, utcoffset, station_id, normalized, result>>

\* line 193: process_uz_data; an exception it raises leaves the call
Normalize ==
    /\ pc = "fetched"
    /\ steps' = Append(steps, "normalize")
    /\ normalized' = process_uz_data(json_data, utcoffset)
    /\ IF normalized'.k = "raise"
       THEN result' = normalized' /\ pc' = "done"
       ELSE pc' = "normalized" /\ UNCHANGED result
    /\ UNCHANGED <<journeyConfig, rows, utcoffset, station_id, response, json_data,
                   http_requests>>

\* lines 195-203: the slice and the return
Truncate ==
    /\ pc = "normalized"
    /\ steps' = Append(steps, "truncate")
    /\ result' = Truncated(normalized.v, rows)
    /\ pc' = "done"
    /\ UNCHANGED <<journeyConfig, rows, utcoffset, station_id, response, json_data,
                   normalized, http_requests>>

----------------------------------------------------------------------------
(* Inputs *)

MaxDepartures == 3
MaxRows == 3
MaxDelay == 3
MaxRouteTokens == 4

Config(departureStation) ==
    [t |-> "dict", k |-> "config", departureStation |-> departureStation]
Board(station, departures) ==
    [t |-> "dict", k |-> "board", station |-> station, departures |-> departures]
Station(name) == [t |-> "dict", k |-> "station", name |-> name]
Destination(name) == [t |-> "dict", k |-> "destination", name |-> name]
Item(time, delay_minutes, route, destination, platform, train) ==
    [t |-> "dict", k |-> "item", time |-> time, delay_minutes |-> delay_minutes,
     route |-> route, destination |-> destination, platform |-> platform,
     train |-> train]

Kyiv == PStr(<<"K", "y", "i", "v">>)
Lviv == PStr(<<"L", "v", "i", "v">>)

\* the local zone's offset from UTC, in seconds
UtcOffsets == {0, 19800}

StationIds ==
    {Absent, None, PStr(<<>>), PInt(0), PStr(<<"2", "2">>), PInt(22),
     PStr(<<"2", "a">>), Kyiv}

Configs ==
    {None, PStr(<<"2", "2">>), PList(<<>>), EmptyDict}
        \cup {Config(id) : id \in StationIds}

RowsValues ==
    {PInt(n) : n \in ((0 - 2)..MaxRows) \cup {5, 11, 15}}
        \cup {None, PStr(<<"a", "b", "c">>), PStr(<<>>), PStr(<<"2">>),
              PStr(<<" ", "2", " ">>), PStr(<<"-", "1">>), PStr(<<"2", ".", "5">>),
              PFloat(5), FloatInf, FloatNan, PBool(TRUE), PBig(19), PList(<<>>)}

\* entries of a departures list, sound and defective
PipelineItems ==
    {Item(PInt(29700), Absent, PStr(<<"K", " ", "-", " ", "L">>), Absent,
          PInt(1), PStr(<<"9", "7", "K">>)),
     Item(Absent, PInt(5), Absent, Destination(Lviv), Absent, Absent),
     Item(PInt(32400), PFloat(1), PStr(<<"K", "-", ">">>), Absent, None,
          PStr(<<"E", "X", "P">>)),
     Item(FloatNan, PInt(0), PStr(<<"L">>), Destination(None), PStr(<<"2">>),
          PInt(12)),
     Item(PInt(0), Absent, None, Absent, Absent, Absent),
     PStr(<<"x">>)}

\* sequences over S of length at most n
SeqsUpTo(S, n) == UNION {[1..m -> S] : m \in 0..n}

\* a board longer than the default limit
LongBoard ==
    Board(Station(Kyiv),
          PList([i \in 1..(DefaultLimit + 2) |->
                    Item(PInt(60 * i), Absent, Absent, Destination(Lviv),
                         PInt(i), PInt(i))]))

\* bodies a 200 response can carry
Bodies ==
    {None, EmptyDict, PList(<<>>), PInt(0), PList(<<PInt(1)>>), Kyiv, LongBoard}
        \cup {Board(st, dep) :
                st \in {Absent, None, Kyiv, Station(Absent), Station(None),
                        Station(Kyiv)},
                dep \in {Absent, None, Kyiv, PList(<<>>)}}
        \cup {Board(Station(Kyiv), PList(l)) :
                l \in SeqsUpTo(PipelineItems, MaxDepartures)}

\* what requests.get can do
Responses ==
    {[kind |-> "response", status_code |-> 200, body |-> b] :
        b \in Bodies \cup {NotJson}}
        \cup {[kind |-> "response", status_code |-> c, body |-> NotJson] :
                c \in {404, 500}}
        \cup {[kind |-> k, status_code |-> 0, body |-> NotJson] :
                k \in {"Timeout", "RequestException", "Exception"}}

NoResult == [k |-> "none"]
NoResponse == [kind |-> "none", status_code |-> 0, body |-> NotJson]

----------------------------------------------------------------------------
(* One call of loadDeparturesForStation(journeyConfig, apiKey, rows) *)

Init ==
    /\ pc = "start"
    /\ journeyConfig \in Configs
    /\ rows \in RowsValues
    /\ utcoffset \in UtcOffsets
    /\ station_id = None
    /\ response = NoResponse
    /\ json_data = None
    /\ normalized = NoResult
    /\ result = NoResult
    /\ http_requests = 0
    /\ steps = <<>>

GetBoard == \E resp \in Responses : Fetch(resp)

Next == Validate \/ GetBoard \/ Normalize \/ Truncate

Spec == Init /\ [][Next]_vars

----------------------------------------------------------------------------
(* process_uz_data on its own: the call has fetched body and is about to *)
(* normalize it *)

Fetched(body) ==
    /\ pc = "fetched"
    /\ journeyConfig = Config(PStr(<<"2", "2">>))
    /\ rows = PInt(DefaultLimit)
    /\ station_id = PStr(<<"2", "2">>)
    /\ response = [kind |-> "response", status_code |-> 200, body |-> body]
    /\ json_data = body
    /\ normalized = NoResult
    /\ result = NoResult
    /\ http_requests = 1
    /\ steps = <<"validate", "fetch">>

\* a board of one entry
OneEntry(item) == Board(Station(Kyiv), PList(<<item>>))

NormalizeNext == Normalize

\* timestamps: absent, null, zero, in range, fractional, not a number, out of range
Times ==
    {Absent, None, PStr(<<"1", "2">>), PBool(TRUE), PBool(FALSE), FloatNan,
     FloatInf, PBig(12), PBig(18), PBig(19), PFloat(0), PFloat(3), PFloat(119)}
        \cup {PInt(n) : n \in {0, 1, 59, 60, 3599, 3600, 29700, 86399, 86400,
                               1700000000}}

\* delays: absent, null, not a number, negative, zero, fractional, whole
Delays ==
    {Absent, None, PStr(<<"5">>), PBool(TRUE), PBool(FALSE), FloatNan, FloatInf,
     PBig(12)}
        \cup {PInt(n) : n \in (0 - 1)..MaxDelay}
        \cup {PFloat(h) : h \in (0 - 1)..(2 * MaxDelay + 1)}

FieldInit ==
    /\ utcoffset \in UtcOffsets
    /\ \E time \in Times, delay \in Delays :
           Fetched(OneEntry(Item(time, delay, PStr(<<"K", "-", ">", "L">>),
                                 Absent, PInt(3), PStr(<<"9", "7", "K">>))))

FieldSpec == FieldInit /\ [][NormalizeNext]_vars

\* the pieces routes are made of
RouteTokens ==
    {<<"K">>, SepDash, SepArrow, <<"ARROW">>, <<"NBSP">>, <<" ">>, <<"-">>}

RECURSIVE Flatten(_)
Flatten(ts) == IF ts = <<>> THEN <<>> ELSE Head(ts) \o Flatten(Tail(ts))

Routes == {Flatten(ts) : ts \in SeqsUpTo(RouteTokens, MaxRouteTokens)}

Destinations ==
    {Absent, Destination(Absent), Destination(Lviv), Destination(PStr(<<>>)),
     Destination(PInt(5))}

DestInit ==
    /\ utcoffset = 0
    /\ \E route \in {PStr(r) : r \in Routes} \cup {Absent},
          destination \in Destinations :
           Fetched(OneEntry(Item(PInt(29700), Absent, route, destination,
                                 Absent, PInt(97))))

DestSpec == DestInit /\ [][NormalizeNext]_vars

\* entries whose times collide and differ, with platforms telling them apart
SortItems ==
    {Item(time, Absent, Absent, Destination(Lviv), PInt(platform), Absent) :
        time \in {Absent, PInt(29700), PInt(32400), FloatNan},
        platform \in 1..2}

SortInit ==
    /\ utcoffset \in UtcOffsets
    /\ \E l \in SeqsUpTo(SortItems, MaxDepartures) :
           Fetched(Board(Station(Kyiv), PList(l)))

SortSpec == SortInit /\ [][NormalizeNext]_vars

----------------------------------------------------------------------------
(* Properties *)

Range(seq) == {seq[i] : i \in 1..Len(seq)}

MinOf(S) == CHOOSE x \in S : \A y \in S : x <= y
MaxOf(S) == CHOOSE x \in S : \A y \in S : y <= x

ConfigErrorResult == Return(<<<<>>, PStr(ConfigError)>>)
ConnectionFailedResult == Return(<<<<>>, PStr(ConnectionFailed)>>)

\* the raw entries of the fetched board and the records made of them
RawEntries == json_data.departures.l
Records == normalized.v[1]

\* C1: no exception propagates out of loadDeparturesForStation: every call
\* ends by returning a pair (records, station name string).
C1_NoExceptionPropagates ==
    pc = "done" => result.k = "return" /\ IsStr(result.v[2])

\* the station identifier field of the configuration is missing or empty
StationIdMissing ==
    \/ ~IsDict(journeyConfig)
    \/ Field(journeyConfig, "departureStation") \in {Absent, None, PStr(<<>>)}

\* C2: a configuration that is not a dict, or whose departureStation is missing
\* or empty, is answered with ([], "Config Error") and get_uz_board is never
\* called: no step but the validation runs and no request is made.
C2_ConfigErrorShortCircuit ==
    StationIdMissing =>
        /\ http_requests = 0
        /\ response = NoResponse
        /\ pc \in {"start", "done"}
        /\ pc = "done" => result = ConfigErrorResult /\ steps = <<"validate">>

C2_Witness ==
    /\ pc = "done"
    /\ IsDict(journeyConfig)
    /\ Field(journeyConfig, "departureStation") = PStr(<<>>)
    /\ result = ConfigErrorResult
    /\ http_requests = 0

\* the request of this call failed: an exception of requests.get, a status
\* other than 200, or a 200 body that is not JSON
FetchFailed ==
    \/ response.kind \in {"Timeout", "RequestException", "Exception"}
    \/ response.kind = "response"
           /\ (response.status_code # 200 \/ response.body = NotJson)

\* C3: every fetch failure yields the same failure indicator (None), and the
\* call then returns exactly ([], "Connection Failed"), whatever the failure
\* and whatever rows is.
C3_FetchFailureCollapses ==
    FetchFailed =>
        /\ json_data = None
        /\ pc = "done" => result = ConnectionFailedResult

\* the limit the claim gives rows: rows when it parses as a positive integer,
\* 10 otherwise
ClaimedLimit ==
    LET n == PyInt(rows) IN
    IF n.k = "return" /\ n.v.t = "bigint" THEN Len(Records)
    ELSE IF n.k = "return" /\ n.v.i > 0 THEN n.v.i
    ELSE DefaultLimit

\* C4: a call that returns after normalizing n records returns the first
\* min(L, n) of them in unchanged order, L being rows when rows parses as a
\* positive integer and 10 otherwise.
C4_RowLimit ==
    (pc = "done" /\ normalized # NoResult /\ normalized.k = "return"
         /\ result.k = "return") =>
        result = Return(<<SubSeq(Records, 1,
                                 MinOf({ClaimedLimit, Len(Records)})),
                          normalized.v[2]>>)

\* "Late {N}m" with N an integer >= 1 in decimal
IsLateN(e) ==
    /\ Len(e) >= 7
    /\ SubSeq(e, 1, 5) = <<"L", "a", "t", "e", " ">>
    /\ e[Len(e)] = "m"
    /\ \A i \in 6..(Len(e) - 1) : e[i] \in DigitChars
    /\ e[6] # "0"

\* C5: in every record expected_departure_time is "On time" or "Late {N}m"
\* with N an integer >= 1; a delay of zero is never rendered.
C5_DelayRendering ==
    pc = "normalized" =>
        \A i \in 1..Len(Records) :
            LET e == Records[i].expected_departure_time.s IN
            e = OnTime \/ IsLateN(e)

\* C6: in every record destination_name is a non-empty string.
C6_DestinationNonEmpty ==
    pc = "normalized" =>
        \A i \in 1..Len(Records) :
            /\ IsStr(Records[i].destination_name)
            /\ Records[i].destination_name.s # <<>>

\* the explicit destination name of an entry, None when there is none
NameOf(item) ==
    LET d == Field(item, "destination") IN
    IF d = Absent THEN None ELSE Get(Field(d, "name"))

\* the route of an entry after normalizing U+00A0 and U+2192, trimmed
RouteOf(item) ==
    LET r == Field(item, "route") IN
    IF r = Absent THEN <<>> ELSE CleanRoute(r.s)

\* s without its leading and trailing blanks
Trim(s) ==
    LET solid == {i \in 1..Len(s) : ~IsSpace(s[i])} IN
    IF solid = {} THEN <<>> ELSE SubSeq(s, MinOf(solid), MaxOf(solid))

\* what follows the first recognized separator occurring in r
AfterFirstSeparator(r) ==
    LET at == {i \in 1..Len(r) :
                  OccursAt(r, SepDash, i) \/ OccursAt(r, SepArrow, i)}
        first == MinOf(at)
        width == IF OccursAt(r, SepDash, first) THEN Len(SepDash)
                 ELSE Len(SepArrow)
    IN  SubSeq(r, first + width, Len(r))

\* the chain as the claim states it
ClaimedDestination(item) ==
    LET name == NameOf(item)
        r == RouteOf(item)
    IN  IF name \notin {None, PStr(<<>>)} THEN name
        ELSE IF Contains(r, SepDash) \/ Contains(r, SepArrow)
        THEN PStr(Trim(AfterFirstSeparator(r)))
        ELSE IF r # <<>> THEN PStr(r)
        ELSE PStr(DestinationUnknown)

\* C7 as stated: the route is split at the first recognized separator occurring
\* in it and the whole trailing segment, trimmed, is the destination.
C7_FirstSeparator ==
    pc = "normalized" =>
        \A i \in 1..Len(Records) :
            Records[i].destination_name = ClaimedDestination(RawEntries[i])

\* what follows the last of the cuts a left-to-right scan of r makes at
\* non-overlapping occurrences of sep
AfterLastCut(r, sep) ==
    LET cut[i \in 1..Len(r)] ==
            /\ OccursAt(r, sep, i)
            /\ \A j \in 1..(i - 1) : j > i - Len(sep) => ~cut[j]
        cuts == {i \in 1..Len(r) : cut[i]}
    IN  IF cuts = {} THEN r ELSE SubSeq(r, MaxOf(cuts) + Len(sep), Len(r))

\* the chain as amended
AmendedDestination(item) ==
    LET name == NameOf(item)
        r == RouteOf(item)
    IN  IF name \notin {None, PStr(<<>>)} THEN name
        ELSE IF Contains(r, SepDash) THEN PStr(Trim(AfterLastCut(r, SepDash)))
        ELSE IF Contains(r, SepArrow) THEN PStr(Trim(AfterLastCut(r, SepArrow)))
        ELSE IF r # <<>> THEN PStr(r)
        ELSE PStr(DestinationUnknown)

\* C7 as amended: in every record destination_name is (1) the explicit name
\* when present and non-empty; (2) otherwise, the route holding " - ", the
\* trimmed last segment of the route split on " - ", and, the route holding
\* "->" but no " - ", the trimmed last segment of the route split on "->";
\* (3) otherwise the whole trimmed route; (4) otherwise "Destination Unknown".
C7_LastSegment ==
    pc = "normalized" =>
        \A i \in 1..Len(Records) :
            Records[i].destination_name = AmendedDestination(RawEntries[i])

\* a route holding "->" before " - " and no explicit name: the destination is
\* what follows the last " - "
C7_Witness ==
    /\ pc = "normalized"
    /\ Len(Records) = 1
    /\ NameOf(RawEntries[1]) = None
    /\ RouteOf(RawEntries[1])
           = <<"-", ">", "K", " ", "-", " ", "K">>
    /\ Records[1].destination_name = PStr(<<"K">>)

\* a <= b on str, by code point
LexLeq(a, b) ==
    \/ a = b
    \/ \E k \in 1..Len(b) :
           /\ k - 1 <= Len(a)
           /\ SubSeq(a, 1, k - 1) = SubSeq(b, 1, k - 1)
           /\ (k > Len(a) \/ Ord(a[k]) < Ord(b[k]))

Timestamp == Get(Field(RawEntries[1], "time"))

\* C9: a numeric timestamp, 0 included, is rendered as HH:MM; "--:--" stands
\* only for an absent or non-numeric timestamp; a numeric timestamp out of
\* range yields the error placeholder and the record is still made.
C9_AimedTime ==
    pc # "fetched" =>
        /\ Timestamp.t \in {"int", "float"} =>
               /\ normalized.k = "return"
               /\ Records[1].aimed_departure_time
                      = PStr(StrfHM(IF Timestamp.t = "int" THEN Timestamp.i
                                    ELSE Timestamp.h \div 2, utcoffset))
        /\ Timestamp.t \in {"bigint", "inf"} =>
               /\ normalized.k = "return"
               /\ Records[1].aimed_departure_time = PStr(BadTime)
        /\ (normalized.k = "return"
                /\ Records[1].aimed_departure_time = PStr(NoTime)) =>
               ~IsNumber(Timestamp)

\* C10 as stated: a call whose configuration passes validation makes exactly
\* one HTTP request.
C10_ExactlyOneRequest ==
    (pc \in {"fetched", "normalized", "done"} /\ ~ConfigRejected(journeyConfig))
        => http_requests = 1

\* a string of digits
DigitString(v) ==
    /\ v.t = "str"
    /\ Len(v.s) > 0
    /\ \A i \in 1..Len(v.s) : v.s[i] \in DigitChars

PipelineOrder == <<"validate", "fetch", "normalize", "truncate">>

\* C10 as amended: a call whose configuration passes validation makes exactly
\* one HTTP request when the station identifier is a string of digits and none
\* otherwise, never more than one, and its steps occur in the order validate,
\* fetch, normalize, truncate.
C10_AtMostOneRequest ==
    /\ http_requests <= 1
    /\ Len(steps) <= Len(PipelineOrder)
    /\ steps = SubSeq(PipelineOrder, 1, Len(steps))
    /\ (pc \in {"fetched", "normalized", "done"}
            /\ ~ConfigRejected(journeyConfig)) =>
           /\ "fetch" \in Range(steps)
           /\ http_requests = IF DigitString(station_id) THEN 1 ELSE 0

C10_Witness ==
    /\ pc = "done"
    /\ steps = PipelineOrder
    /\ http_requests = 1
    /\ FetchFailed
    /\ result = ConnectionFailedResult

====
